---- MODULE Spec2Model ----
(***************************************************************************)
(* StationaryLinearDiscretization (pymor/discretizations/linear.py):       *)
(* construction, copy(), assignment to its operators / solver, and the     *)
(* cached solve(mu), called by up to two callers.                          *)
(*                                                                         *)
(* Matrices, vectors and solutions are symbolic: a matrix is the pair      *)
(* (operator, parameter it was assembled under), a solution records the    *)
(* solver that produced it and the matrix and right-hand side it was       *)
(* computed from.  Logging (lines 109-111) changes no state and is left    *)
(* out.                                                                    *)
(***************************************************************************)
EXTENDS Integers, Sequences, FiniteSets, Bags, TLC

\* ------------------------------------------------------------- bounds
\* The number of operations (solve calls, assignments, copies) of a run.
MaxOps == 3

Threads == {"t1", "t2"}
\* The discretization constructed first and the copies taken of it.
Disc == 1 .. (1 + MaxOps)

\* ------------------------------------------- operators and functionals
\* The LinearDiscreteOperators a discretization can be built from or be
\* assigned.  dim_source/dim_range as set by the operators' constructors,
\* storage and stored (the number of stored entries of a sparse matrix) as
\* returned by assemble, ptype the operator's own ParameterType, converges
\* whether bicg reaches the tolerance within maxiter on this matrix.
OperatorIds == {"Ld", "Ls", "Lhard", "Lzero", "Lempty"}
FunctionalIds == {"f1", "f0"}

OperatorDef(op) ==
  CASE op = "Ld"     -> [dim_source |-> 1, dim_range |-> 1, storage |-> "dense",
                         stored |-> 1, ptype |-> {<<"mu", <<1>>>>}, converges |-> TRUE]
    [] op = "Ls"     -> [dim_source |-> 1, dim_range |-> 1, storage |-> "sparse",
                         stored |-> 1, ptype |-> {}, converges |-> TRUE]
    [] op = "Lhard"  -> [dim_source |-> 1, dim_range |-> 1, storage |-> "sparse",
                         stored |-> 1, ptype |-> {}, converges |-> FALSE]
    [] op = "Lzero"  -> [dim_source |-> 1, dim_range |-> 1, storage |-> "sparse",
                         stored |-> 0, ptype |-> {}, converges |-> TRUE]
    [] op = "Lempty" -> [dim_source |-> 0, dim_range |-> 0, storage |-> "dense",
                         stored |-> 0, ptype |-> {<<"mu", <<1>>>>}, converges |-> TRUE]
    [] op = "f1"     -> [dim_source |-> 1, dim_range |-> 1, storage |-> "dense",
                         stored |-> 1, ptype |-> {}, converges |-> TRUE]
    [] op = "f0"     -> [dim_source |-> 0, dim_range |-> 1, storage |-> "dense",
                         stored |-> 0, ptype |-> {}, converges |-> TRUE]

\* ---------------------------------------------------------- parameters
\* A parameter mapping is a set of <<name, shape, data>> triples; a raw
\* argument of solve is the argument as the caller wrote it.
RawInputs ==
  { [kind |-> "omitted", m |-> {}],
    [kind |-> "dict",    m |-> {}],
    [kind |-> "dict",    m |-> {<<"mu", <<>>, <<5>>>>}],
    [kind |-> "dict",    m |-> {<<"mu", <<1>>, <<5>>>>}],
    [kind |-> "dict",    m |-> {<<"mu", <<2>>, <<5, 6>>>>}] }

RECURSIVE Prod(_)
Prod(shape) == IF shape = <<>> THEN 1 ELSE Head(shape) * Prod(Tail(shape))

\* A one-element array broadcasts to any declared shape of at least its rank.
Broadcastable(shape, declared) ==
  \/ shape = declared
  \/ Prod(shape) = 1 /\ Len(shape) <= Len(declared)

Broadcast(shape, data, declared) ==
  IF shape = declared THEN data ELSE [i \in 1 .. Prod(declared) |-> data[1]]

Names(m) == {e[1] : e \in m}

\* parse(raw, schema): the canonical ParameterValue, or a validation error.
parse(m, schema) ==
  IF \E e \in m : e[1] \notin Names(schema)
    THEN [ok |-> FALSE, why |-> "unknown name", value |-> {}]
  ELSE IF \E e \in m : \E s \in schema : s[1] = e[1] /\ ~Broadcastable(e[2], s[2])
    THEN [ok |-> FALSE, why |-> "incompatible shape", value |-> {}]
  ELSE IF \E s \in schema : s[1] \notin Names(m)
    THEN [ok |-> FALSE, why |-> "missing component", value |-> {}]
  ELSE [ok |-> TRUE, why |-> "",
        value |-> {<<e[1], s[2], Broadcast(e[2], e[3], s[2])>> :
                     <<e, s>> \in {p \in m \X schema : p[1][1] = p[2][1]}}]


\* ------------------------------------------------- matrices and vectors
NoMatrix == [op |-> "none", mu |-> {}, shape |-> <<>>]

\* Operator.matrix(mu): parse mu against the operator's own ParameterType,
\* then the assembled matrix, of shape (dim_range, dim_source).
matrix(op, mu) ==
  LET p == parse(mu, OperatorDef(op).ptype) IN
  IF p.ok
    THEN [ok |-> TRUE,
          M |-> [op |-> op, mu |-> p.value,
                 shape |-> <<OperatorDef(op).dim_range, OperatorDef(op).dim_source>>]]
    ELSE [ok |-> FALSE, M |-> NoMatrix]

issparse(A) == OperatorDef(A.op).storage = "sparse"

\* A.size: the number of elements of an ndarray, the number of stored
\* entries of a scipy sparse matrix.
size(A) == IF issparse(A) THEN OperatorDef(A.op).stored ELSE Prod(A.shape)

\* np.squeeze: drop the axes of length one.
squeeze(shape) == SelectSeq(shape, LAMBDA n : n # 1)

\* RHS = np.squeeze(...); if RHS.ndim == 0: RHS = RHS[np.newaxis]
rhs_vector(M) ==
  LET s == squeeze(M.shape) IN
  [op |-> M.op, mu |-> M.mu, shape |-> IF Len(s) = 0 THEN <<1>> ELSE s]

\* ------------------------------------------------------------- solvers
NoValue == [kind |-> "none", by |-> "none", A |-> NoMatrix, RHS |-> NoMatrix,
            tol |-> "none", maxiter |-> "none"]

\* np.zeros(0)
zeros0(A) == [kind |-> "empty", by |-> "none", A |-> A, RHS |-> NoMatrix,
              tol |-> "none", maxiter |-> "none"]

\* A x = RHS needs a square A and a vector of its length.
Conformable(A, RHS) ==
  /\ Len(A.shape) = 2 /\ A.shape[1] = A.shape[2]
  /\ RHS.shape = <<A.shape[2]>>

\* scipy.sparse.linalg.bicg: <<x, info>>, info = 0 on convergence and
\* positive when maxiter was reached, x then being the last iterate.
bicg(A, RHS, tol, maxiter) ==
  IF ~Conformable(A, RHS)
    THEN [raised |-> TRUE, x |-> NoValue, info |-> 0]
    ELSE [raised |-> FALSE,
          x |-> [kind |-> IF OperatorDef(A.op).converges THEN "solution" ELSE "iterate",
                 by |-> "bicg", A |-> A, RHS |-> RHS, tol |-> tol, maxiter |-> maxiter],
          info |-> IF OperatorDef(A.op).converges THEN 0 ELSE 1]

\* numpy.linalg.solve
np_linalg_solve(A, RHS) ==
  IF ~Conformable(A, RHS)
    THEN [raised |-> TRUE, U |-> NoValue]
    ELSE [raised |-> FALSE,
          U |-> [kind |-> "solution", by |-> "np.linalg.solve", A |-> A, RHS |-> RHS,
                 tol |-> "none", maxiter |-> "none"]]

\* def default_solver(A, RHS): the info flag of bicg is dropped.
default_solver(A, RHS) ==
  IF issparse(A)
    THEN LET r == bicg(A, RHS, "defaults.bicg_tol", "defaults.bicg_maxiter") IN
         [raised |-> r.raised, U |-> r.x]
    ELSE np_linalg_solve(A, RHS)

\* A solver passed to the constructor or assigned later: a black box
\* solver(A, RHS) whose result is marked with its name.
SuppliedSolvers == {"solverX"}

supplied_solver(s, A, RHS) ==
  IF ~Conformable(A, RHS)
    THEN [raised |-> TRUE, U |-> NoValue]
    ELSE [raised |-> FALSE,
          U |-> [kind |-> "solution", by |-> s, A |-> A, RHS |-> RHS,
                 tol |-> "none", maxiter |-> "none"]]

\* self.solver = solver or default_solver
solver_or_default(s) == IF s = "None" THEN "default_solver" ELSE s

\* self.solver(A, RHS)
self_solver(s, A, RHS) ==
  IF s = "default_solver" THEN default_solver(A, RHS) ELSE supplied_solver(s, A, RHS)


\* --------------------------------------------------------------- state
VARIABLES
  alive,           \* the discretizations constructed so far
  operators,       \* d.operators: a reference to a dict on the heap
  heap,            \* the dicts: reference -> ['operator' -> op, 'rhs' -> f]
  solver,          \* d.solver
  parameter_type,  \* what build_parameter_type recorded at construction
  solution_dim,    \* d.solution_dim
  cache_config,    \* the configuration Cachable.__init__ was given
  namespace,       \* the cache namespace Cachable.__init__ gave
  copied_from,     \* history: the discretization a copy was taken from
  cache,           \* the stored results: a set of [key, value]
  locks,           \* the keys whose computation is under way
  pc,              \* each caller's position in solve
  frame,           \* each caller's locals in solve
  ret,             \* what each caller's last solve returned or raised
  entered,         \* history: bag of keys, one per run of the body of solve
  matrixRequests,  \* history: bag of <<key, 'operator'|'rhs'>> matrix() calls
  solverCalls,     \* history: bag of keys, one per call of self.solver
  ops              \* the number of operations made

objvars == <<alive, operators, heap, solver, parameter_type, solution_dim,
             cache_config, namespace, copied_from>>
callvars == <<cache, locks, pc, frame, ret, entered, matrixRequests, solverCalls>>
vars == <<objvars, callvars, ops>>

DictOf(d) == heap[operators[d]]

\* ----------------------------------------------------- construction
DEFAULT_DISK_CONFIG == "disk"
DEFAULT_MEMORY_CONFIG == "memory"

\* Cachable.__init__(self, config=DEFAULT_MEMORY_CONFIG): the configuration
\* used when the caller names none.
Cachable_default_config == DEFAULT_MEMORY_CONFIG

\* build_parameter_type(inherits={'operator': operator, 'rhs': rhs}): the
\* ParameterType of each sub-entity under its name; the discretization's
\* own ParameterType is their merge.
build_parameter_type(op, f) ==
  [operator |-> OperatorDef(op).ptype, rhs |-> OperatorDef(f).ptype]

ParameterType(d) == parameter_type[d].operator \cup parameter_type[d].rhs

\* The assertions of __init__.
init_asserts(op, f) ==
  /\ op \in OperatorIds /\ f \in FunctionalIds
  /\ OperatorDef(op).dim_source = OperatorDef(op).dim_range
  /\ OperatorDef(op).dim_range = OperatorDef(f).dim_source
  /\ OperatorDef(f).dim_range = 1

NoIdentity == [namespace |-> 0, operator |-> "none", rhs |-> "none", solver |-> "none"]
NoRaw == [kind |-> "none", m |-> {}]
NoKey == [identity |-> NoIdentity, call |-> NoRaw]
NoFrame == [d |-> 0, raw |-> NoRaw, key |-> NoKey, waited |-> FALSE,
            mu |-> {}, A |-> NoMatrix, RHS |-> NoMatrix]
NoRet == [d |-> 0, raw |-> NoRaw, key |-> NoKey, kind |-> "none", value |-> NoValue,
          err |-> "none", stage |-> "none", waited |-> FALSE, seen |-> NoIdentity]

\* StationaryLinearDiscretization(operator, rhs, solver): discretization 1.
Init ==
  \E op \in OperatorIds, f \in FunctionalIds, s \in {"None", "solverX"} :
    /\ init_asserts(op, f)
    /\ alive = {1}
    /\ operators = [d \in Disc |-> IF d = 1 THEN 1 ELSE 0]
    /\ heap = (1 :> [operator |-> op, rhs |-> f])
    /\ solver = [d \in Disc |-> IF d = 1 THEN solver_or_default(s) ELSE "none"]
    /\ parameter_type = [d \in Disc |-> IF d = 1 THEN build_parameter_type(op, f)
                                                 ELSE [operator |-> {}, rhs |-> {}]]
    /\ solution_dim = [d \in Disc |-> IF d = 1 THEN OperatorDef(op).dim_range ELSE 0]
    /\ cache_config = [d \in Disc |-> IF d = 1 THEN DEFAULT_DISK_CONFIG ELSE "none"]
    /\ namespace = [d \in Disc |-> IF d = 1 THEN 1 ELSE 0]
    /\ copied_from = [d \in Disc |-> 0]
    /\ cache = {}
    /\ locks = {}
    /\ pc = [t \in Threads |-> "idle"]
    /\ frame = [t \in Threads |-> NoFrame]
    /\ ret = [t \in Threads |-> NoRet]
    /\ entered = EmptyBag
    /\ matrixRequests = EmptyBag
    /\ solverCalls = EmptyBag
    /\ ops = 0

\* The callers are interchangeable: the free caller that comes first takes
\* the next call.
Free(t) ==
  /\ pc[t] = "idle"
  /\ \A u \in Threads : (u = "t1" /\ t = "t2") => pc[u] # "idle"

\* No solve is under way: the discretization's attributes are assigned and
\* copies are taken between calls only (the callers synchronise).
Quiescent == \A t \in Threads : pc[t] = "idle"

\* ------------------------------------------------------------- copy()
\* c = copy.copy(self); c.operators = c.operators.copy(); Cachable.__init__(c)
copy(d, c) ==
  /\ Quiescent /\ d \in alive /\ ops < MaxOps
  /\ c \in Disc \ alive
  /\ c = Cardinality(alive) + 1
  /\ alive' = alive \cup {c}
  /\ LET ref == Cardinality(DOMAIN heap) + 1 IN
       /\ heap' = heap @@ (ref :> DictOf(d))
       /\ operators' = [operators EXCEPT ![c] = ref]
  /\ solver' = [solver EXCEPT ![c] = solver[d]]
  /\ parameter_type' = [parameter_type EXCEPT ![c] = parameter_type[d]]
  /\ solution_dim' = [solution_dim EXCEPT ![c] = solution_dim[d]]
  /\ cache_config' = [cache_config EXCEPT ![c] = Cachable_default_config]
  /\ namespace' = [namespace EXCEPT ![c] = Cardinality(alive) + 1]
  /\ copied_from' = [copied_from EXCEPT ![c] = d]
  /\ ops' = ops + 1
  /\ UNCHANGED callvars

\* ----------------------------------------------------- assignments
\* d.operator = op (dict_property): d.operators['operator'] = op
set_operator(d, op) ==
  /\ Quiescent /\ d \in alive /\ ops < MaxOps
  /\ op \in OperatorIds \ {DictOf(d).operator}
  /\ heap' = [heap EXCEPT ![operators[d]].operator = op]
  /\ ops' = ops + 1
  /\ UNCHANGED <<alive, operators, solver, parameter_type, solution_dim,
                 cache_config, namespace, copied_from, callvars>>

\* d.rhs = f (dict_property): d.operators['rhs'] = f
set_rhs(d, f) ==
  /\ Quiescent /\ d \in alive /\ ops < MaxOps
  /\ f \in FunctionalIds \ {DictOf(d).rhs}
  /\ heap' = [heap EXCEPT ![operators[d]].rhs = f]
  /\ ops' = ops + 1
  /\ UNCHANGED <<alive, operators, solver, parameter_type, solution_dim,
                 cache_config, namespace, copied_from, callvars>>

\* d.solver = s
set_solver(d, s) ==
  /\ Quiescent /\ d \in alive /\ ops < MaxOps
  /\ s \in SuppliedSolvers \ {solver[d]}
  /\ solver' = [solver EXCEPT ![d] = s]
  /\ ops' = ops + 1
  /\ UNCHANGED <<alive, operators, heap, parameter_type, solution_dim,
                 cache_config, namespace, copied_from, callvars>>


\* ---------------------------------------------------------- the cache
\* The attributes solve computes from.
Attributes(d) ==
  [namespace |-> namespace[d], operator |-> DictOf(d).operator,
   rhs |-> DictOf(d).rhs, solver |-> solver[d]]

\* A StateIdentity that is the cache namespace alone.
identity_by_namespace(d) ==
  [namespace |-> namespace[d], operator |-> "any", rhs |-> "any", solver |-> "any"]

\* StateIdentity: the object's cache namespace and its cache-relevant
\* attributes (the operators and the solver).
StateIdentity(d) ==
  [namespace |-> namespace[d], operator |-> DictOf(d).operator,
   rhs |-> DictOf(d).rhs, solver |-> solver[d]]

\* The fingerprint of the arguments the decorated method is called with:
\* solve parses mu inside its body, so these are the caller's own.
call_key(raw) == raw

Key(d, raw) == [identity |-> StateIdentity(d), call |-> call_key(raw)]

\* solve without the decorator.
solve_undecorated == {}

\* @cached, on solve
solve_decorators == {"cached"}

Cached == "cached" \in solve_decorators

Hit(k) == Cached /\ \E e \in cache : e.key = k
Stored(k) == (CHOOSE e \in cache : e.key = k).value

\* get_or_compute without the serialisation of concurrent misses.
may_compute_unserialised(k) == TRUE

\* get_or_compute lets one caller at a time compute a key.
may_compute(k) == k \notin locks

store(k, v) == {e \in cache : e.key # k} \cup {[key |-> k, value |-> v]}

\* ----------------------------------------------------------- solve(mu)
\* parse_parameter(mu): mu={} when the argument is omitted.
parse_parameter(d, raw) == parse(raw.m, ParameterType(d))

\* map_parameter(mu, name): the components the sub-entity registered.
map_parameter(d, mu, name) ==
  {e \in mu : e[1] \in Names(parameter_type[d][name])}

\* solve with the matrix requested before the parameter is validated.
solve_enter_assembles_first(d, raw) ==
  LET p == parse_parameter(d, raw)
      a == matrix(DictOf(d).operator, map_parameter(d, raw.m, "operator"))
  IN  IF ~p.ok \/ ~a.ok
        THEN [next |-> "raise", stage |-> IF ~p.ok THEN "parse" ELSE "assemble",
              requested |-> TRUE, mu |-> {}, A |-> NoMatrix]
      ELSE IF size(a.M) = 0
        THEN [next |-> "return", stage |-> "assemble", requested |-> TRUE,
              mu |-> p.value, A |-> a.M]
      ELSE [next |-> "ASSEMBLING", stage |-> "assemble", requested |-> TRUE,
            mu |-> p.value, A |-> a.M]

\* solve without the early return for an empty matrix.
solve_enter_without_size_check(d, raw) ==
  LET p == parse_parameter(d, raw)
      a == matrix(DictOf(d).operator, map_parameter(d, p.value, "operator"))
  IN  IF ~p.ok
        THEN [next |-> "raise", stage |-> "parse", requested |-> FALSE,
              mu |-> {}, A |-> NoMatrix]
      ELSE IF ~a.ok
        THEN [next |-> "raise", stage |-> "assemble", requested |-> TRUE,
              mu |-> p.value, A |-> NoMatrix]
      ELSE [next |-> "ASSEMBLING", stage |-> "assemble", requested |-> TRUE,
            mu |-> p.value, A |-> a.M]

\* mu = self.parse_parameter(mu)
\* A = self.operator.matrix(self.map_parameter(mu, 'operator'))
\* if A.size == 0: return np.zeros(0)
solve_enter(d, raw) ==
  LET p == parse_parameter(d, raw)
      a == matrix(DictOf(d).operator, map_parameter(d, p.value, "operator"))
  IN  IF ~p.ok
        THEN [next |-> "raise", stage |-> "parse", requested |-> FALSE,
              mu |-> {}, A |-> NoMatrix]
      ELSE IF ~a.ok
        THEN [next |-> "raise", stage |-> "assemble", requested |-> TRUE,
              mu |-> p.value, A |-> NoMatrix]
      ELSE IF size(a.M) = 0
        THEN [next |-> "return", stage |-> "assemble", requested |-> TRUE,
              mu |-> p.value, A |-> a.M]
      ELSE [next |-> "ASSEMBLING", stage |-> "assemble", requested |-> TRUE,
            mu |-> p.value, A |-> a.M]

\* RHS = np.squeeze(self.rhs.matrix(self.map_parameter(mu, 'rhs')))
\* if RHS.ndim == 0: RHS = RHS[np.newaxis]
solve_rhs(d, mu) ==
  LET r == matrix(DictOf(d).rhs, map_parameter(d, mu, "rhs")) IN
  [ok |-> r.ok, RHS |-> IF r.ok THEN rhs_vector(r.M) ELSE NoMatrix]

\* The caller gets v back; with @cached it is stored first.
Return(t, v) ==
  LET k == frame[t].key IN
  /\ cache' = IF Cached THEN store(k, v) ELSE cache
  /\ locks' = locks \ {k}
  /\ ret' = [ret EXCEPT ![t] =
       [d |-> frame[t].d, raw |-> frame[t].raw, key |-> k, kind |-> "computed",
        value |-> v, err |-> "none", stage |-> "none", waited |-> frame[t].waited,
        seen |-> Attributes(frame[t].d)]]
  /\ pc' = [pc EXCEPT ![t] = "idle"]
  /\ frame' = [frame EXCEPT ![t] = NoFrame]

\* An exception leaves solve: nothing is stored.
Raise(t, err, stage) ==
  LET k == frame[t].key IN
  /\ locks' = locks \ {k}
  /\ ret' = [ret EXCEPT ![t] =
       [d |-> frame[t].d, raw |-> frame[t].raw, key |-> k, kind |-> "error",
        value |-> NoValue, err |-> err, stage |-> stage, waited |-> frame[t].waited,
        seen |-> Attributes(frame[t].d)]]
  /\ pc' = [pc EXCEPT ![t] = "idle"]
  /\ frame' = [frame EXCEPT ![t] = NoFrame]
  /\ UNCHANGED cache

\* solve(mu) finds its result stored.
CallHit(t, d, raw) ==
  LET k == Key(d, raw) IN
  /\ Free(t) /\ d \in alive /\ ops < MaxOps
  /\ Hit(k)
  /\ ret' = [ret EXCEPT ![t] =
       [d |-> d, raw |-> raw, key |-> k, kind |-> "hit", value |-> Stored(k),
        err |-> "none", stage |-> "none", waited |-> FALSE, seen |-> Attributes(d)]]
  /\ ops' = ops + 1
  /\ UNCHANGED <<objvars, cache, locks, pc, frame, entered, matrixRequests,
                 solverCalls>>

\* solve(mu) finds nothing stored and runs the body.
CallMiss(t, d, raw) ==
  LET k == Key(d, raw) IN
  /\ Free(t) /\ d \in alive /\ ops < MaxOps
  /\ ~Hit(k)
  /\ Cached => may_compute(k)
  /\ locks' = IF Cached THEN locks \cup {k} ELSE locks
  /\ pc' = [pc EXCEPT ![t] = "UNSOLVED"]
  /\ frame' = [frame EXCEPT ![t] = [NoFrame EXCEPT !.d = d, !.raw = raw, !.key = k]]
  /\ entered' = entered (+) SetToBag({k})
  /\ ops' = ops + 1
  /\ UNCHANGED <<objvars, cache, ret, matrixRequests, solverCalls>>

\* solve(mu) finds nothing stored while another caller computes the key.
CallBlocked(t, d, raw) ==
  LET k == Key(d, raw) IN
  /\ Free(t) /\ d \in alive /\ ops < MaxOps
  /\ Cached /\ ~Hit(k) /\ ~may_compute(k)
  /\ pc' = [pc EXCEPT ![t] = "blocked"]
  /\ frame' = [frame EXCEPT ![t] = [NoFrame EXCEPT !.d = d, !.raw = raw, !.key = k,
                                                   !.waited = TRUE]]
  /\ ops' = ops + 1
  /\ UNCHANGED <<objvars, cache, locks, ret, entered, matrixRequests,
                 solverCalls>>

\* The blocked caller goes on once the key is free: with the stored result,
\* or, when the other caller's computation raised, by computing itself.
Resume(t) ==
  LET k == frame[t].key IN
  /\ pc[t] = "blocked"
  /\ may_compute(k)
  /\ IF Hit(k)
       THEN /\ ret' = [ret EXCEPT ![t] =
                 [d |-> frame[t].d, raw |-> frame[t].raw, key |-> k, kind |-> "hit",
                  value |-> Stored(k), err |-> "none", stage |-> "none",
                  waited |-> TRUE, seen |-> Attributes(frame[t].d)]]
            /\ pc' = [pc EXCEPT ![t] = "idle"]
            /\ frame' = [frame EXCEPT ![t] = NoFrame]
            /\ UNCHANGED <<locks, entered>>
       ELSE /\ locks' = locks \cup {k}
            /\ pc' = [pc EXCEPT ![t] = "UNSOLVED"]
            /\ entered' = entered (+) SetToBag({k})
            /\ UNCHANGED <<ret, frame>>
  /\ UNCHANGED <<objvars, cache, matrixRequests, solverCalls, ops>>

\* UNSOLVED -> ASSEMBLING: lines 106-114.
Enter(t) ==
  LET d == frame[t].d
      k == frame[t].key
      r == solve_enter(d, frame[t].raw)
  IN
  /\ pc[t] = "UNSOLVED"
  /\ matrixRequests' = IF r.requested
                         THEN matrixRequests (+) SetToBag({<<k, "operator">>})
                         ELSE matrixRequests
  /\ CASE r.next = "raise" -> Raise(t, "ParameterValidationError", r.stage)
       [] r.next = "return" -> Return(t, zeros0(r.A))
       [] OTHER ->
            /\ pc' = [pc EXCEPT ![t] = "ASSEMBLING"]
            /\ frame' = [frame EXCEPT ![t].mu = r.mu, ![t].A = r.A]
            /\ UNCHANGED <<cache, locks, ret>>
  /\ UNCHANGED <<objvars, entered, solverCalls, ops>>

\* ASSEMBLING -> SOLVING: lines 115-117.
AssembleRhs(t) ==
  LET d == frame[t].d
      k == frame[t].key
      r == solve_rhs(d, frame[t].mu)
  IN
  /\ pc[t] = "ASSEMBLING"
  /\ matrixRequests' = matrixRequests (+) SetToBag({<<k, "rhs">>})
  /\ IF r.ok
       THEN /\ pc' = [pc EXCEPT ![t] = "SOLVING"]
            /\ frame' = [frame EXCEPT ![t].RHS = r.RHS]
            /\ UNCHANGED <<cache, locks, ret>>
       ELSE Raise(t, "ParameterValidationError", "assemble")
  /\ UNCHANGED <<objvars, entered, solverCalls, ops>>

\* SOLVING -> SOLVED | FAILED: line 119, return self.solver(A, RHS).
Solve(t) ==
  LET d == frame[t].d
      k == frame[t].key
      r == self_solver(solver[d], frame[t].A, frame[t].RHS)
  IN
  /\ pc[t] = "SOLVING"
  /\ solverCalls' = solverCalls (+) SetToBag({k})
  /\ IF r.raised THEN Raise(t, "LinAlgError", "solve") ELSE Return(t, r.U)
  /\ UNCHANGED <<objvars, entered, matrixRequests, ops>>

Next ==
  \/ \E d \in Disc, c \in Disc : copy(d, c)
  \/ \E d \in Disc, op \in OperatorIds : set_operator(d, op)
  \/ \E d \in Disc, f \in FunctionalIds : set_rhs(d, f)
  \/ \E d \in Disc, s \in SuppliedSolvers : set_solver(d, s)
  \/ \E t \in Threads, d \in Disc, raw \in RawInputs : CallHit(t, d, raw)
  \/ \E t \in Threads, d \in Disc, raw \in RawInputs : CallMiss(t, d, raw)
  \/ \E t \in Threads, d \in Disc, raw \in RawInputs : CallBlocked(t, d, raw)
  \/ \E t \in Threads : Resume(t)
  \/ \E t \in Threads : Enter(t)
  \/ \E t \in Threads : AssembleRhs(t)
  \/ \E t \in Threads : Solve(t)

Spec == Init /\ [][Next]_vars

\* -------------------------------------------------------- properties
InBody(t) == pc[t] \in {"UNSOLVED", "ASSEMBLING", "SOLVING"}
Returned(t) == ret[t].kind \in {"hit", "computed"}
CacheKeys == {e.key : e \in cache}
Requests(k, name) == CopiesIn(<<k, name>>, matrixRequests)
\* The dimension of the system a matrix belongs to.
Dim(A) == IF Len(A.shape) = 2 THEN A.shape[2] ELSE 0
DiscOf(ns) == CHOOSE d \in alive : namespace[d] = ns

\* C1: a solve whose argument and discretization state equal those of an
\* earlier completed solve is a cache hit: every returned solution is the one
\* stored under its key, and for a key with a returned solution the body of
\* solve ran once, each matrix was requested at most once and the solver
\* was called at most once.
C1_RepeatedSolveIsCacheHit ==
  \A t \in Threads : Returned(t) =>
    LET k == ret[t].key IN
    /\ \E e \in cache : e.key = k /\ e.value = ret[t].value
    /\ CopiesIn(k, entered) = 1
    /\ CopiesIn(k, solverCalls) <= 1
    /\ Requests(k, "operator") = 1
    /\ Requests(k, "rhs") <= 1

\* A second solve with the argument of a completed one returned the stored
\* solution.
C1_Witness ==
  \E t \in Threads :
    /\ ret[t].kind = "hit" /\ ~ret[t].waited
    /\ ret[t].value.kind = "solution"
    /\ CopiesIn(ret[t].key, solverCalls) = 1

\* The solution v was computed from the attributes a.
ProducedFrom(v, a) ==
  /\ v.A.op = a.operator
  /\ v.kind # "empty" =>
       /\ v.RHS.op = a.rhs
       /\ IF a.solver = "default_solver"
            THEN v.by \in {"bicg", "np.linalg.solve"}
            ELSE v.by = a.solver

C3_NonConvergenceReported ==
  /\ \A t \in Threads : ret[t].value.kind # "iterate"
  /\ \A e \in cache : e.value.kind # "iterate"

\* C4: a copy has a dict of operators and a cache namespace of its own and
\* the cache backend of the discretization it was copied from, and no solve
\* on one returns what the other stored.
C4_CopyIndependent ==
  /\ \A c \in alive : copied_from[c] # 0 =>
       /\ operators[c] # operators[copied_from[c]]
       /\ namespace[c] # namespace[copied_from[c]]
       /\ cache_config[c] = cache_config[copied_from[c]]
  /\ \A t \in Threads : Returned(t) =>
       ret[t].key.identity.namespace = namespace[ret[t].d]

\* C5: a solve whose argument fails validation against the
\* discretization's ParameterType raises ParameterValidationError, and
\* under its key no matrix was requested, no solver called, nothing stored.
C5_InvalidParameterNoComputation ==
  \A t \in Threads :
    (ret[t].kind # "none" /\ ~parse(ret[t].raw.m, ParameterType(ret[t].d)).ok) =>
      LET k == ret[t].key IN
      /\ ret[t].kind = "error"
      /\ ret[t].err = "ParameterValidationError" /\ ret[t].stage = "parse"
      /\ Requests(k, "operator") = 0 /\ Requests(k, "rhs") = 0
      /\ CopiesIn(k, solverCalls) = 0
      /\ k \notin CacheKeys

\* A solve raised on an argument of the wrong shape.
C5_Witness ==
  \E t \in Threads :
    /\ ret[t].kind = "error" /\ ret[t].stage = "parse"
    /\ parse(ret[t].raw.m, ParameterType(ret[t].d)).why = "incompatible shape"

\* The ParameterValue the argument of a stored result parses to.
Parsed(k) == parse(k.call.m, ParameterType(DiscOf(k.identity.namespace)))

\* C6: the cache key of solve is derived from the parsed ParameterValue:
\* two results stored for the same discretization state whose arguments
\* parse to equal ParameterValues are one entry.
C6_KeyFromParsedValue ==
  \A e1, e2 \in cache :
    (e1.key.identity = e2.key.identity /\ Parsed(e1.key) = Parsed(e2.key))
      => e1 = e2

\* C7: concurrent solves of one key are serialised: no two callers are
\* inside the body of solve for the same key, and a caller that waited and
\* then hit returns the stored result of the one computation of the key.
C7_OneComputationPerKey ==
  /\ \A t, u \in Threads :
       (t # u /\ InBody(t) /\ InBody(u)) => frame[t].key # frame[u].key
  /\ \A t \in Threads : (ret[t].kind = "hit" /\ ret[t].waited) =>
       /\ CopiesIn(ret[t].key, entered) = 1
       /\ CopiesIn(ret[t].key, solverCalls) <= 1
       /\ \E e \in cache : e.key = ret[t].key /\ e.value = ret[t].value
       /\ \A u \in Threads \ {t} :
            (ret[u].kind = "computed" /\ ret[u].key = ret[t].key)
              => ret[u].value = ret[t].value

\* The second of two concurrent callers waited and returned the solution
\* the first one stored.
C7_Witness ==
  \E t, u \in Threads :
    /\ t # u
    /\ ret[t].kind = "hit" /\ ret[t].waited /\ ret[t].value.kind = "solution"
    /\ ret[u].kind = "computed" /\ ret[u].key = ret[t].key

\* C8: operator.dim_source == operator.dim_range == rhs.dim_source and
\* rhs.dim_range == 1 in every discretization.
C8_DimensionInvariant ==
  \A d \in alive :
    LET op == OperatorDef(DictOf(d).operator)
        f == OperatorDef(DictOf(d).rhs)
    IN  /\ op.dim_source = op.dim_range
        /\ op.dim_range = f.dim_source
        /\ f.dim_range = 1

\* C9: a solve that computed for a system of non-zero dimension returns
\* what the solver made of it: the supplied solver when one is set, else
\* np.linalg.solve for a dense and bicg with the configured tolerance and
\* iteration cap for a sparse matrix.
C9_SolverDispatch ==
  \A t \in Threads :
    (ret[t].kind = "computed" /\ Dim(ret[t].value.A) > 0) =>
      LET v == ret[t].value IN
      IF ret[t].seen.solver # "default_solver"
        THEN v.by = ret[t].seen.solver
        ELSE IF issparse(v.A)
          THEN /\ v.by = "bicg"
               /\ v.tol = "defaults.bicg_tol"
               /\ v.maxiter = "defaults.bicg_maxiter"
          ELSE v.by = "np.linalg.solve"

\* C10: a solve of a system of dimension zero returns the empty vector and
\* calls no solver; a solve about to call the solver holds the operator
\* matrix and the rhs vector, each requested under its own projection of
\* the parsed parameter.
C10_EmptySystemAndAssemblyOrder ==
  /\ \A t \in Threads : (ret[t].kind = "computed" /\ Dim(ret[t].value.A) = 0) =>
       /\ ret[t].value.kind = "empty"
       /\ CopiesIn(ret[t].key, solverCalls) = 0
  /\ \A t \in Threads : pc[t] = "SOLVING" =>
       LET d == frame[t].d
           k == frame[t].key
           mu == parse_parameter(d, frame[t].raw).value
       IN  /\ frame[t].A.op = DictOf(d).operator
           /\ frame[t].RHS.op = DictOf(d).rhs
           /\ frame[t].A.mu = map_parameter(d, mu, "operator")
           /\ frame[t].RHS.mu = map_parameter(d, mu, "rhs")
           /\ Requests(k, "operator") > CopiesIn(k, solverCalls)
           /\ Requests(k, "rhs") > CopiesIn(k, solverCalls)

\* A solve is about to call the solver with a matrix and a right-hand side
\* requested under different projections, after a solve of an empty system
\* returned the empty vector.
C10_Witness ==
  \E t, u \in Threads :
    /\ pc[t] = "SOLVING"
    /\ frame[t].A.mu # frame[t].RHS.mu
    /\ ret[u].kind = "computed" /\ ret[u].value.kind = "empty"
    /\ Dim(ret[u].value.A) = 0

====
